---- MODULE Spec2Model ----
(***************************************************************************)
(* Model of the hash server of mwaldtha/go (src/unnamed/part_000): the     *)
(* HashHandler and StatsHandler, updateStats, hashAndEncode, and the       *)
(* signal goroutine / ConnState callback of main.                          *)
(*                                                                         *)
(* Every connection is a process; a step of a handler is one access to     *)
(* shared state (an atomic operation, a lock operation, a map access)      *)
(* together with the purely local computation that follows it.             *)
(***************************************************************************)
EXTENDS Integers, Sequences, FiniteSets, TLC

\* ------------------------------------------------------------------ bounds
NConn == 2
MaxReqs == 2
MaxStatsReqs == 4
MaxDrainReqs == 2
MaxSeqReqs == 3
MaxStoreReqs == 3
MaxDigestReqs == 2
MaxLookupReqs == 2
MaxMeanReqs == 3
MaxShutdownReqs == 1
MaxMethodReqs == 2
MaxBadIdReqs == 2
MaxPasswordReqs == 2

Conns == 1..NConn

\* --------------------------------------------------------- program values
postFormValues == {"", "angryMonkey"}

durationNanos == {1500000}

NoSeg == <<>>

jobIdSegments == { <<"a", "b", "c">>, <<"1">> }

StatusOK == 200
StatusBadRequest == 400
StatusNotFound == 404
StatusMethodNotAllowed == 405
StatusServiceUnavailable == 503

NoHash == ""

VARIABLES
    stopping,      \* int32 flag, 0 accepting / 1 draining
    jobCounter,    \* int32
    hashes,        \* map[int32]string, as a function on the keys present
    lock,          \* sync.RWMutex: [w |-> writer holds it, r |-> readers]
    heap,          \* the HashStat objects allocated so far (current fields)
    published,     \* the fields each HashStat object had when it was stored
    hashStats,     \* atomic.Value: index in heap of the published object
    wg,            \* sync.WaitGroup counter
    sigPc,         \* signal goroutine: "running", "draining", "exited"
    connState,     \* per connection: "unaccepted","new","active","idle","closed"
    pc,            \* per connection: position of its handler
    req,           \* per connection: the request being served
    jid,           \* per connection: local jid of ServeHTTP
    hs,            \* per connection: local hs of updateStats / loaded pointer
    num,           \* per connection: local num of updateStats
    avg,           \* per connection: local avg of updateStats
    resp,          \* per connection: the response written by the handler
    reqsLeft,      \* requests still to arrive
    late,          \* per connection: handler started after the flag flipped
    returnedIds,   \* JobIds delivered to clients
    nReturned,     \* number of Submit responses delivered to clients
    recorded,      \* number of updateStats calls that have completed
    observed       \* the total read by the latest Stats request, -1 before the first

vars == << stopping, jobCounter, hashes, lock, heap, published, hashStats, wg,
           sigPc, connState, pc, req, jid, hs, num, avg, resp, reqsLeft, late,
           returnedIds, nReturned, recorded, observed >>

\* ------------------------------------------------------- pure functions
\* int32 arithmetic wraps around
MaxInt32 == 2147483647
MinInt32 == -MaxInt32 - 1

\* AddInt32 adding the delta twice
AddInt32Twice(x, delta) == x + delta + delta

\* atomic.AddInt32 with a positive delta: the new value
AddInt32(x, delta) ==
    IF x > MaxInt32 - delta THEN MinInt32 + (x - (MaxInt32 - delta)) - 1 ELSE x + delta

\* float64 values are modelled as exact fractions <<numerator, denominator>>
\* in lowest terms with a positive denominator.
Abs(n) == IF n < 0 THEN -n ELSE n

RECURSIVE GCD(_, _)
GCD(a, b) == IF b = 0 THEN a ELSE GCD(b, a % b)

Frac(n, d) == LET g == GCD(Abs(n), d) IN << n \div g, d \div g >>

Zero == Frac(0, 1)

\* durationMilli := float64(durationNano) / 1e6
durationMilli(durationNano) == Frac(durationNano, 1000000)

\* newAverage without the weight (num - 1) of the old average
newAverageUnweighted(oldAverage, n, durationNano) ==
    Frac(oldAverage[1] * 1000000 + durationNano * oldAverage[2], oldAverage[2] * 1000000 * n)

\* avg := ((hs.Average * (float64(num) - 1)) + durationMilli) / float64(num),
\* as one fraction: (a/b * (n - 1) + p/q) / n = (a*(n-1)*q + p*b) / (b*q*n)
newAverage(oldAverage, n, durationNano) ==
    LET dm == durationMilli(durationNano)
    IN  Frac(oldAverage[1] * (n - 1) * dm[2] + dm[1] * oldAverage[2],
             oldAverage[2] * dm[2] * n)

\* strconv.Itoa on the values a job id takes
DigitString == << "0", "1", "2", "3", "4", "5", "6", "7", "8", "9" >>

RECURSIVE ItoaNat(_)
ItoaNat(n) == IF n < 10 THEN DigitString[n + 1]
              ELSE ItoaNat(n \div 10) \o DigitString[(n % 10) + 1]

Itoa(n) == IF n < 0 THEN "-" \o ItoaNat(-n) ELSE ItoaNat(n)

\* strconv.Atoi on a path segment given as a sequence of characters:
\* an optional sign followed by one or more decimal digits.
DigitValue(ch) == CASE ch = "0" -> 0 [] ch = "1" -> 1 [] ch = "2" -> 2
                    [] ch = "3" -> 3 [] ch = "4" -> 4 [] ch = "5" -> 5
                    [] ch = "6" -> 6 [] ch = "7" -> 7 [] ch = "8" -> 8
                    [] ch = "9" -> 9 [] OTHER -> -1

\* A Go int (64 bits) is kept as a sign and a magnitude of four 16-bit
\* limbs, least significant first.
LimbBase == 65536

ZeroLimbs == << 0, 0, 0, 0 >>

\* limbs * k + carry, as << limbs, carry out >>
RECURSIVE LimbsMulAdd(_, _, _)
LimbsMulAdd(l, k, carry) ==
    IF l = <<>> THEN << <<>>, carry >>
    ELSE LET t == Head(l) * k + carry
             rest == LimbsMulAdd(Tail(l), k, t \div LimbBase)
         IN  << << t % LimbBase >> \o rest[1], rest[2] >>

\* the magnitude of a digit string, as << limbs, overflowed 64 bits >>
RECURSIVE DigitsValue(_, _, _)
DigitsValue(s, acc, over) ==
    IF s = <<>> THEN << acc, over >>
    ELSE LET m == LimbsMulAdd(acc, 10, DigitValue(Head(s)))
         IN  DigitsValue(Tail(s), m[1], over \/ m[2] > 0)

AllDigits(s) == s # <<>> /\ \A i \in 1..Len(s) : DigitValue(s[i]) >= 0

\* the value is in the range of a 64-bit int
InInt64(neg, mag) ==
    \/ mag[4] < 32768
    \/ neg /\ mag = << 0, 0, 0, 32768 >>

Atoi(s) ==
    LET signed == s # <<>> /\ Head(s) \in {"+", "-"}
        neg == signed /\ Head(s) = "-"
        digits == IF signed THEN Tail(s) ELSE s
        m == DigitsValue(digits, ZeroLimbs, FALSE)
    IN  IF AllDigits(digits) /\ ~m[2] /\ InInt64(neg, m[1])
        THEN [err |-> FALSE, neg |-> neg, mag |-> m[1]]
        ELSE [err |-> TRUE, neg |-> FALSE, mag |-> ZeroLimbs]

\* int32(jid): the low 32 bits of the int, read as a signed number
Int32Of(n) ==
    LET lo == IF n.neg THEN (LimbBase - n.mag[1]) % LimbBase ELSE n.mag[1]
        hi == IF n.neg
              THEN (LimbBase - 1 - n.mag[2] + (IF n.mag[1] = 0 THEN 1 ELSE 0)) % LimbBase
              ELSE n.mag[2]
    IN  IF hi >= 32768 THEN (hi - LimbBase) * LimbBase + lo ELSE hi * LimbBase + lo

\* sha512 + base64 of the submitted value (the test fixtures)
hashFixture(data) ==
    CASE data = "angryMonkey" ->
           "ZEHhWB65gUlzdVwtDQArEyx+KVLzp/aTaRaPlBzYRIFj6vjFdqEb0Q5B8zVKCZ0vKbZPZklJz0Fd7su2A+gf7Q=="
      [] data = "password" ->
           "sQnzu7wkTrgkQZF+0G1hi5AI3Qmzvv0bXgc5THBqi7mAsdd4Xll27ASbRt9fEyavWi6m0QP9B8lThf+rDKy8hg=="

\* hashes[k] of a Go map: the zero value "" when the key is absent
MapGet(m, k) == IF k \in DOMAIN m THEN m[k] ELSE NoHash

MapPut(m, k, v) == [x \in DOMAIN m \cup {k} |-> IF x = k THEN v ELSE m[x]]

\* ---------------------------------------------------------------- requests
HashSeg == << "h", "a", "s", "h" >>

\* strings.Split(r.URL.Path, "/") of the paths the hash handler is registered on
hashUrlParts == { << NoSeg, HashSeg >> } \cup { << NoSeg, HashSeg, s >> : s \in jobIdSegments }

NoRequest == [handler |-> "none", method |-> "", urlParts |-> <<>>, p |-> ""]

Requests ==
         { [handler |-> "hash", method |-> "POST", urlParts |-> << NoSeg, HashSeg >>, p |-> v] :
               v \in postFormValues }
    \cup { [handler |-> "hash", method |-> "GET", urlParts |-> u, p |-> ""] : u \in hashUrlParts }
    \cup { [handler |-> "hash", method |-> "PUT", urlParts |-> << NoSeg, HashSeg >>, p |-> ""] }
    \cup { [handler |-> "stats", method |-> m, urlParts |-> <<>>, p |-> ""] : m \in {"GET", "POST"} }

NoResp == [code |-> 0, body |-> "", total |-> 0, average |-> Zero]

\* http.Error: the status and the message; the body is kept as the message,
\* which is what the tests compare after strings.TrimSpace
Error(msg, status) == [code |-> status, body |-> msg, total |-> 0, average |-> Zero]

\* -------------------------------------------------------------------- Init
InitShared ==
    /\ stopping = 0
    /\ jobCounter = 0
    /\ hashes = << >>
    /\ lock = [w |-> FALSE, r |-> 0]
    /\ heap = << [Total |-> 0, Average |-> Zero] >>
    /\ published = << [Total |-> 0, Average |-> Zero] >>
    /\ hashStats = 1
    /\ wg = 0
    /\ sigPc = "running"
    /\ connState = [c \in Conns |-> "unaccepted"]
    /\ pc = [c \in Conns |-> "idle"]
    /\ req = [c \in Conns |-> NoRequest]
    /\ jid = [c \in Conns |-> 0]
    /\ hs = [c \in Conns |-> 0]
    /\ num = [c \in Conns |-> 0]
    /\ avg = [c \in Conns |-> Zero]
    /\ resp = [c \in Conns |-> NoResp]
    /\ late = [c \in Conns |-> FALSE]
    /\ returnedIds = {}
    /\ nReturned = 0
    /\ recorded = 0
    /\ observed = -1

Init == InitShared /\ reqsLeft = MaxReqs

\* the process is still running (os.Exit has not been called)
Alive == sigPc # "exited"

\* ------------------------------------------------------ connection states
\* ConnState callback, http.StateNew: wg.Add(1)
ConnStateNew(c) ==
    /\ Alive
    /\ connState[c] = "unaccepted"
    /\ connState' = [connState EXCEPT ![c] = "new"]
    /\ wg' = wg + 1
    /\ UNCHANGED << stopping, jobCounter, hashes, lock, heap, published, hashStats,
                    sigPc, pc, req, jid, hs, num, avg, resp, reqsLeft, late,
                    returnedIds, nReturned, recorded, observed >>

\* ConnStateClosed without the wg.Done()
ConnStateClosedNoDone(c) ==
    /\ Alive
    /\ connState[c] \in {"new", "idle"}
    /\ connState' = [connState EXCEPT ![c] = "closed"]
    /\ wg' = wg
    /\ UNCHANGED << stopping, jobCounter, hashes, lock, heap, published, hashStats,
                    sigPc, pc, req, jid, hs, num, avg, resp, reqsLeft, late,
                    returnedIds, nReturned, recorded, observed >>

\* ConnState callback, http.StateClosed: wg.Done().  The server closes a
\* connection only when no handler is running on it.
ConnStateClosed(c) ==
    /\ Alive
    /\ connState[c] \in {"new", "idle"}
    /\ connState' = [connState EXCEPT ![c] = "closed"]
    /\ wg' = wg - 1
    /\ UNCHANGED << stopping, jobCounter, hashes, lock, heap, published, hashStats,
                    sigPc, pc, req, jid, hs, num, avg, resp, reqsLeft, late,
                    returnedIds, nReturned, recorded, observed >>

\* The server reads a request from the connection and calls the handler
\* registered for its path.  The content of the request is drawn where the
\* handler first looks at it (HashHandlerEnter, StatsHandlerEnter).
ServeRequest(c) ==
    /\ Alive
    /\ connState[c] \in {"new", "idle"}
    /\ reqsLeft > 0
    /\ connState' = [connState EXCEPT ![c] = "active"]
    /\ pc' = [pc EXCEPT ![c] = "enter"]
    /\ late' = [late EXCEPT ![c] = (stopping = 1)]
    /\ reqsLeft' = reqsLeft - 1
    /\ UNCHANGED << stopping, jobCounter, hashes, lock, heap, published, hashStats,
                    wg, sigPc, req, jid, hs, num, avg, resp,
                    returnedIds, nReturned, recorded, observed >>

\* ------------------------------------------------------------ HashHandler
\* HashHandlerEnter with the error of strconv.Atoi ignored (jid is 0 then)
HashHandlerEnterIgnoreErr(c, r) ==
    /\ Alive
    /\ pc[c] = "enter"
    /\ r.handler = "hash"
    /\ req' = [req EXCEPT ![c] = r]
    /\ LET urlParts == r.urlParts
           parsed == Atoi(urlParts[3])
       IN  IF stopping = 1
           THEN /\ resp' = [resp EXCEPT ![c] = Error("Server is stopping.", StatusServiceUnavailable)]
                /\ pc' = [pc EXCEPT ![c] = "ret"]
                /\ jid' = jid
           ELSE IF r.method = "GET"
           THEN IF Len(urlParts) >= 3 /\ urlParts[3] # NoSeg
                THEN /\ jid' = [jid EXCEPT ![c] = IF parsed.err THEN 0 ELSE Int32Of(parsed)]
                     /\ pc' = [pc EXCEPT ![c] = "rlock"]
                     /\ resp' = resp
                ELSE /\ resp' = [resp EXCEPT ![c] = Error("No job id specified.", StatusBadRequest)]
                     /\ pc' = [pc EXCEPT ![c] = "ret"]
                     /\ jid' = jid
           ELSE IF r.method = "POST"
           THEN IF r.p # ""
                THEN /\ pc' = [pc EXCEPT ![c] = "alloc"]
                     /\ UNCHANGED << resp, jid >>
                ELSE /\ resp' = [resp EXCEPT ![c] = Error("A value must be submitted.", StatusBadRequest)]
                     /\ pc' = [pc EXCEPT ![c] = "ret"]
                     /\ jid' = jid
           ELSE /\ resp' = [resp EXCEPT ![c] =
                       Error("Only POST and GET requests are supported.", StatusMethodNotAllowed)]
                /\ pc' = [pc EXCEPT ![c] = "ret"]
                /\ jid' = jid
    /\ UNCHANGED << stopping, jobCounter, hashes, lock, heap, published, hashStats,
                    wg, sigPc, connState, hs, num, avg, reqsLeft, late,
                    returnedIds, nReturned, recorded, observed >>

\* HashHandlerEnter without the test of the form value (p != "")
HashHandlerEnterNoValueCheck(c, r) ==
    /\ Alive
    /\ pc[c] = "enter"
    /\ r.handler = "hash"
    /\ req' = [req EXCEPT ![c] = r]
    /\ IF stopping = 1
       THEN /\ resp' = [resp EXCEPT ![c] = Error("Server is stopping.", StatusServiceUnavailable)]
            /\ pc' = [pc EXCEPT ![c] = "ret"]
       ELSE IF r.method = "POST"
       THEN /\ pc' = [pc EXCEPT ![c] = "alloc"]
            /\ resp' = resp
       ELSE /\ resp' = [resp EXCEPT ![c] =
                   Error("Only POST and GET requests are supported.", StatusMethodNotAllowed)]
            /\ pc' = [pc EXCEPT ![c] = "ret"]
    /\ UNCHANGED << stopping, jobCounter, hashes, lock, heap, published, hashStats,
                    wg, sigPc, connState, jid, hs, num, avg, reqsLeft, late,
                    returnedIds, nReturned, recorded, observed >>

\* HashHandler.ServeHTTP from its first statement up to its first access to
\* shared state after the flag: the flag check, the method switch, the
\* parsing of the job id and of the form value.  On the GET path the local
\* jid is kept already converted by int32(jid).
HashHandlerEnter(c, r) ==
    /\ Alive
    /\ pc[c] = "enter"
    /\ r.handler = "hash"
    /\ req' = [req EXCEPT ![c] = r]
    /\ LET urlParts == r.urlParts
           p == r.p
           parsed == Atoi(urlParts[3])
       IN  IF stopping = 1
           THEN /\ resp' = [resp EXCEPT ![c] = Error("Server is stopping.", StatusServiceUnavailable)]
                /\ pc' = [pc EXCEPT ![c] = "ret"]
                /\ jid' = jid
           ELSE IF r.method = "GET"
           THEN IF Len(urlParts) >= 3 /\ urlParts[3] # NoSeg
                THEN IF parsed.err
                     THEN /\ resp' = [resp EXCEPT ![c] =
                                 Error("Unable to process the supplied job id.", StatusBadRequest)]
                          /\ pc' = [pc EXCEPT ![c] = "ret"]
                          /\ jid' = jid
                     ELSE /\ jid' = [jid EXCEPT ![c] = Int32Of(parsed)]
                          /\ pc' = [pc EXCEPT ![c] = "rlock"]
                          /\ resp' = resp
                ELSE /\ resp' = [resp EXCEPT ![c] = Error("No job id specified.", StatusBadRequest)]
                     /\ pc' = [pc EXCEPT ![c] = "ret"]
                     /\ jid' = jid
           ELSE IF r.method = "POST"
           THEN IF p # ""
                THEN /\ pc' = [pc EXCEPT ![c] = "alloc"]
                     /\ UNCHANGED << resp, jid >>
                ELSE /\ resp' = [resp EXCEPT ![c] = Error("A value must be submitted.", StatusBadRequest)]
                     /\ pc' = [pc EXCEPT ![c] = "ret"]
                     /\ jid' = jid
           ELSE /\ resp' = [resp EXCEPT ![c] =
                       Error("Only POST and GET requests are supported.", StatusMethodNotAllowed)]
                /\ pc' = [pc EXCEPT ![c] = "ret"]
                /\ jid' = jid
    /\ UNCHANGED << stopping, jobCounter, hashes, lock, heap, published, hashStats,
                    wg, sigPc, connState, hs, num, avg, reqsLeft, late,
                    returnedIds, nReturned, recorded, observed >>

\* HashGetRLock that does not wait for the writer
HashGetRLockNoWait(c) ==
    /\ Alive
    /\ pc[c] = "rlock"
    /\ lock' = [lock EXCEPT !.r = @ + 1]
    /\ pc' = [pc EXCEPT ![c] = "read"]
    /\ UNCHANGED << stopping, jobCounter, hashes, heap, published, hashStats,
                    wg, sigPc, connState, req, jid, hs, num, avg, resp, reqsLeft, late,
                    returnedIds, nReturned, recorded, observed >>

\* GET: lock.RLock()
HashGetRLock(c) ==
    /\ Alive
    /\ pc[c] = "rlock"
    /\ ~lock.w
    /\ lock' = [lock EXCEPT !.r = @ + 1]
    /\ pc' = [pc EXCEPT ![c] = "read"]
    /\ UNCHANGED << stopping, jobCounter, hashes, heap, published, hashStats,
                    wg, sigPc, connState, req, jid, hs, num, avg, resp, reqsLeft, late,
                    returnedIds, nReturned, recorded, observed >>

\* HashGetRead that removes the entry it has read
HashGetReadConsume(c) ==
    /\ Alive
    /\ pc[c] = "read"
    /\ LET jidHash == MapGet(hashes, jid[c])
       IN  resp' = [resp EXCEPT ![c] =
                      IF jidHash = NoHash
                      THEN Error("Unable to find the specified job id.", StatusNotFound)
                      ELSE [code |-> StatusOK, body |-> jidHash, total |-> 0, average |-> Zero]]
    /\ hashes' = [k \in DOMAIN hashes \ {jid[c]} |-> hashes[k]]
    /\ lock' = [lock EXCEPT !.r = @ - 1]
    /\ pc' = [pc EXCEPT ![c] = "ret"]
    /\ UNCHANGED << stopping, jobCounter, heap, published, hashStats,
                    wg, sigPc, connState, req, jid, hs, num, avg, reqsLeft, late,
                    returnedIds, nReturned, recorded, observed >>

\* GET: jidHash := hashes[int32(jid)]; lock.RUnlock(); the 404 / 200 response
HashGetRead(c) ==
    /\ Alive
    /\ pc[c] = "read"
    /\ LET jidHash == MapGet(hashes, jid[c])
       IN  resp' = [resp EXCEPT ![c] =
                      IF jidHash = NoHash
                      THEN Error("Unable to find the specified job id.", StatusNotFound)
                      ELSE [code |-> StatusOK, body |-> jidHash, total |-> 0, average |-> Zero]]
    /\ lock' = [lock EXCEPT !.r = @ - 1]
    /\ pc' = [pc EXCEPT ![c] = "ret"]
    /\ UNCHANGED << stopping, jobCounter, hashes, heap, published, hashStats,
                    wg, sigPc, connState, req, jid, hs, num, avg, reqsLeft, late,
                    returnedIds, nReturned, recorded, observed >>

\* HashPostAlloc with the incremented value never written back to the
\* counter (jid := jobCounter + 1)
HashPostAllocStale(c) ==
    /\ Alive
    /\ pc[c] = "alloc"
    /\ jobCounter' = jobCounter
    /\ jid' = [jid EXCEPT ![c] = AddInt32(jobCounter, 1)]
    /\ resp' = [resp EXCEPT ![c] =
                  [code |-> StatusOK, body |-> Itoa(AddInt32(jobCounter, 1)),
                   total |-> 0, average |-> Zero]]
    /\ pc' = [pc EXCEPT ![c] = "load"]
    /\ UNCHANGED << stopping, hashes, lock, heap, published, hashStats,
                    wg, sigPc, connState, req, hs, num, avg, reqsLeft, late,
                    returnedIds, nReturned, recorded, observed >>

\* POST: jid := atomic.AddInt32(&jobCounter, 1); the response is written
\* into the response buffer.
HashPostAlloc(c) ==
    /\ Alive
    /\ pc[c] = "alloc"
    /\ jobCounter' = AddInt32(jobCounter, 1)
    /\ jid' = [jid EXCEPT ![c] = jobCounter']
    /\ resp' = [resp EXCEPT ![c] =
                  [code |-> StatusOK, body |-> Itoa(jobCounter'), total |-> 0, average |-> Zero]]
    /\ pc' = [pc EXCEPT ![c] = "load"]
    /\ UNCHANGED << stopping, hashes, lock, heap, published, hashStats,
                    wg, sigPc, connState, req, hs, num, avg, reqsLeft, late,
                    returnedIds, nReturned, recorded, observed >>

\* ------------------------------------------------------------ updateStats
\* hs := hashStats.Load().(*HashStat)
UpdateStatsLoad(c) ==
    /\ Alive
    /\ pc[c] = "load"
    /\ hs' = [hs EXCEPT ![c] = hashStats]
    /\ pc' = [pc EXCEPT ![c] = "add"]
    /\ UNCHANGED << stopping, jobCounter, hashes, lock, heap, published, hashStats,
                    wg, sigPc, connState, req, jid, num, avg, resp, reqsLeft, late,
                    returnedIds, nReturned, recorded, observed >>

\* num := atomic.AddInt32(&hs.Total, 1), on the object that was loaded, and
\* the computation of avg from hs.Average and the measured duration.
UpdateStatsAddOf(c, durationNano) ==
    /\ Alive
    /\ pc[c] = "add"
    /\ LET n == AddInt32(heap[hs[c]].Total, 1)
       IN  /\ heap' = [heap EXCEPT ![hs[c]].Total = n]
           /\ num' = [num EXCEPT ![c] = n]
           /\ avg' = [avg EXCEPT ![c] = newAverage(heap[hs[c]].Average, n, durationNano)]
    /\ pc' = [pc EXCEPT ![c] = "store"]
    /\ UNCHANGED << stopping, jobCounter, hashes, lock, published, hashStats,
                    wg, sigPc, connState, req, jid, hs, resp, reqsLeft, late,
                    returnedIds, nReturned, recorded, observed >>

UpdateStatsAdd(c) == \E durationNano \in durationNanos : UpdateStatsAddOf(c, durationNano)

\* UpdateStatsStore publishing a total that is one too high
UpdateStatsStoreOffByOne(c) ==
    /\ Alive
    /\ pc[c] = "store"
    /\ heap' = Append(heap, [Total |-> num[c] + 1, Average |-> avg[c]])
    /\ published' = Append(published, [Total |-> num[c] + 1, Average |-> avg[c]])
    /\ hashStats' = Len(heap) + 1
    /\ recorded' = recorded + 1
    /\ hs' = [hs EXCEPT ![c] = 0]
    /\ num' = [num EXCEPT ![c] = 0]
    /\ avg' = [avg EXCEPT ![c] = Zero]
    /\ pc' = [pc EXCEPT ![c] = "sleep"]
    /\ UNCHANGED << stopping, jobCounter, hashes, lock,
                    wg, sigPc, connState, req, jid, resp, reqsLeft, late,
                    returnedIds, nReturned, observed >>

\* hashStats.Store(&HashStat{Total: num, Average: avg})
UpdateStatsStore(c) ==
    /\ Alive
    /\ pc[c] = "store"
    /\ heap' = Append(heap, [Total |-> num[c], Average |-> avg[c]])
    /\ published' = Append(published, [Total |-> num[c], Average |-> avg[c]])
    /\ hashStats' = Len(heap) + 1
    /\ recorded' = recorded + 1
    /\ hs' = [hs EXCEPT ![c] = 0]
    /\ num' = [num EXCEPT ![c] = 0]
    /\ avg' = [avg EXCEPT ![c] = Zero]
    /\ pc' = [pc EXCEPT ![c] = "sleep"]
    /\ UNCHANGED << stopping, jobCounter, hashes, lock,
                    wg, sigPc, connState, req, jid, resp, reqsLeft, late,
                    returnedIds, nReturned, observed >>

\* ---------------------------------------------------------- hashAndEncode
\* deferred call of hashAndEncode(jid, p): time.Sleep(5 * time.Second)
HashAndEncodeSleep(c) ==
    /\ Alive
    /\ pc[c] = "sleep"
    /\ pc' = [pc EXCEPT ![c] = "lock"]
    /\ UNCHANGED << stopping, jobCounter, hashes, lock, heap, published, hashStats,
                    wg, sigPc, connState, req, jid, hs, num, avg, resp, reqsLeft, late,
                    returnedIds, nReturned, recorded, observed >>

\* lock.Lock()
HashAndEncodeLock(c) ==
    /\ Alive
    /\ pc[c] = "lock"
    /\ ~lock.w
    /\ lock.r = 0
    /\ lock' = [lock EXCEPT !.w = TRUE]
    /\ pc' = [pc EXCEPT ![c] = "write"]
    /\ UNCHANGED << stopping, jobCounter, hashes, heap, published, hashStats,
                    wg, sigPc, connState, req, jid, hs, num, avg, resp, reqsLeft, late,
                    returnedIds, nReturned, recorded, observed >>

\* HashAndEncodeWrite storing under the current value of the counter
\* instead of the jid it was called with
HashAndEncodeWriteLatest(c) ==
    /\ Alive
    /\ pc[c] = "write"
    /\ hashes' = MapPut(hashes, jobCounter, hashFixture(req[c].p))
    /\ lock' = [lock EXCEPT !.w = FALSE]
    /\ pc' = [pc EXCEPT ![c] = "ret"]
    /\ UNCHANGED << stopping, jobCounter, heap, published, hashStats,
                    wg, sigPc, connState, req, jid, hs, num, avg, resp, reqsLeft, late,
                    returnedIds, nReturned, recorded, observed >>

\* HashAndEncodeWrite storing every digest under key 1
HashAndEncodeWriteKey1(c) ==
    /\ Alive
    /\ pc[c] = "write"
    /\ hashes' = MapPut(hashes, 1, hashFixture(req[c].p))
    /\ lock' = [lock EXCEPT !.w = FALSE]
    /\ pc' = [pc EXCEPT ![c] = "ret"]
    /\ UNCHANGED << stopping, jobCounter, heap, published, hashStats,
                    wg, sigPc, connState, req, jid, hs, num, avg, resp, reqsLeft, late,
                    returnedIds, nReturned, recorded, observed >>

\* HashAndEncodeWrite with the digest computed and dropped
HashAndEncodeWriteLost(c) ==
    /\ Alive
    /\ pc[c] = "write"
    /\ hashes' = hashes
    /\ lock' = [lock EXCEPT !.w = FALSE]
    /\ pc' = [pc EXCEPT ![c] = "ret"]
    /\ UNCHANGED << stopping, jobCounter, heap, published, hashStats,
                    wg, sigPc, connState, req, jid, hs, num, avg, resp, reqsLeft, late,
                    returnedIds, nReturned, recorded, observed >>

\* hashes[jid] = base64(sha512(data)); lock.Unlock()
HashAndEncodeWrite(c) ==
    /\ Alive
    /\ pc[c] = "write"
    /\ hashes' = MapPut(hashes, jid[c], hashFixture(req[c].p))
    /\ lock' = [lock EXCEPT !.w = FALSE]
    /\ pc' = [pc EXCEPT ![c] = "ret"]
    /\ UNCHANGED << stopping, jobCounter, heap, published, hashStats,
                    wg, sigPc, connState, req, jid, hs, num, avg, resp, reqsLeft, late,
                    returnedIds, nReturned, recorded, observed >>

\* ----------------------------------------------------------- StatsHandler
\* StatsHandlerEnter without the method switch
StatsHandlerEnterAnyMethod(c, r) ==
    /\ Alive
    /\ pc[c] = "enter"
    /\ r.handler = "stats"
    /\ req' = [req EXCEPT ![c] = r]
    /\ IF stopping = 1
       THEN /\ resp' = [resp EXCEPT ![c] = Error("Server is stopping.", StatusServiceUnavailable)]
            /\ pc' = [pc EXCEPT ![c] = "ret"]
       ELSE /\ pc' = [pc EXCEPT ![c] = "sload"]
            /\ resp' = resp
    /\ UNCHANGED << stopping, jobCounter, hashes, lock, heap, published, hashStats,
                    wg, sigPc, connState, jid, hs, num, avg, reqsLeft, late,
                    returnedIds, nReturned, recorded, observed >>

\* StatsHandlerEnter without the check of the stopping flag
StatsHandlerEnterNoCheck(c, r) ==
    /\ Alive
    /\ pc[c] = "enter"
    /\ r.handler = "stats"
    /\ req' = [req EXCEPT ![c] = r]
    /\ IF r.method = "GET"
       THEN /\ pc' = [pc EXCEPT ![c] = "sload"]
            /\ resp' = resp
       ELSE /\ resp' = [resp EXCEPT ![c] =
                   Error("Only GET requests are supported.", StatusMethodNotAllowed)]
            /\ pc' = [pc EXCEPT ![c] = "ret"]
    /\ UNCHANGED << stopping, jobCounter, hashes, lock, heap, published, hashStats,
                    wg, sigPc, connState, jid, hs, num, avg, reqsLeft, late,
                    returnedIds, nReturned, recorded, observed >>

\* StatsHandler.ServeHTTP: the flag check and the method switch
StatsHandlerEnter(c, r) ==
    /\ Alive
    /\ pc[c] = "enter"
    /\ r.handler = "stats"
    /\ req' = [req EXCEPT ![c] = r]
    /\ IF stopping = 1
       THEN /\ resp' = [resp EXCEPT ![c] = Error("Server is stopping.", StatusServiceUnavailable)]
            /\ pc' = [pc EXCEPT ![c] = "ret"]
       ELSE IF r.method = "GET"
       THEN /\ pc' = [pc EXCEPT ![c] = "sload"]
            /\ resp' = resp
       ELSE /\ resp' = [resp EXCEPT ![c] =
                   Error("Only GET requests are supported.", StatusMethodNotAllowed)]
            /\ pc' = [pc EXCEPT ![c] = "ret"]
    /\ UNCHANGED << stopping, jobCounter, hashes, lock, heap, published, hashStats,
                    wg, sigPc, connState, jid, hs, num, avg, reqsLeft, late,
                    returnedIds, nReturned, recorded, observed >>

\* hashStats.Load().(*HashStat)
StatsLoad(c) ==
    /\ Alive
    /\ pc[c] = "sload"
    /\ hs' = [hs EXCEPT ![c] = hashStats]
    /\ pc' = [pc EXCEPT ![c] = "sread"]
    /\ UNCHANGED << stopping, jobCounter, hashes, lock, heap, published, hashStats,
                    wg, sigPc, connState, req, jid, num, avg, resp, reqsLeft, late,
                    returnedIds, nReturned, recorded, observed >>

\* json.Marshal reads the fields of the loaded object
StatsMarshal(c) ==
    /\ Alive
    /\ pc[c] = "sread"
    /\ resp' = [resp EXCEPT ![c] = [code |-> StatusOK, body |-> "",
                                    total |-> heap[hs[c]].Total,
                                    average |-> heap[hs[c]].Average]]
    /\ observed' = heap[hs[c]].Total
    /\ hs' = [hs EXCEPT ![c] = 0]
    /\ pc' = [pc EXCEPT ![c] = "ret"]
    /\ UNCHANGED << stopping, jobCounter, hashes, lock, heap, published, hashStats,
                    wg, sigPc, connState, req, jid, num, avg, reqsLeft, late,
                    returnedIds, nReturned, recorded >>

\* ---------------------------------------------------------- handler return
\* ServeHTTP returns: the server flushes the buffered response to the client
\* and the connection becomes idle.
IsSubmitOK(c) == req[c].handler = "hash" /\ req[c].method = "POST" /\ resp[c].code = StatusOK

HandlerReturn(c) ==
    /\ Alive
    /\ pc[c] = "ret"
    /\ connState' = [connState EXCEPT ![c] = "idle"]
    /\ pc' = [pc EXCEPT ![c] = "idle"]
    /\ returnedIds' = IF IsSubmitOK(c) THEN returnedIds \cup {resp[c].body} ELSE returnedIds
    /\ nReturned' = IF IsSubmitOK(c) THEN nReturned + 1 ELSE nReturned
    /\ req' = [req EXCEPT ![c] = NoRequest]
    /\ resp' = [resp EXCEPT ![c] = NoResp]
    /\ jid' = [jid EXCEPT ![c] = 0]
    /\ late' = [late EXCEPT ![c] = FALSE]
    /\ UNCHANGED << stopping, jobCounter, hashes, lock, heap, published, hashStats,
                    wg, sigPc, hs, num, avg, reqsLeft, recorded, observed >>

\* --------------------------------------------------------- signal goroutine
\* <-stopChan; atomic.StoreInt32(&stopping, 1)
Signal ==
    /\ sigPc = "running"
    /\ stopping' = 1
    /\ sigPc' = "draining"
    /\ UNCHANGED << jobCounter, hashes, lock, heap, published, hashStats, wg,
                    connState, pc, req, jid, hs, num, avg, resp, reqsLeft, late,
                    returnedIds, nReturned, recorded, observed >>

\* wg.Wait() left out: the shutdown path never blocks
WaitDoneNoWait == TRUE

\* wg.Wait() returns when the counter is zero
WaitDone == wg = 0

\* wg.Wait(); os.Exit(1)
ShutdownExit ==
    /\ sigPc = "draining"
    /\ WaitDone
    /\ sigPc' = "exited"
    /\ UNCHANGED << stopping, jobCounter, hashes, lock, heap, published, hashStats, wg,
                    connState, pc, req, jid, hs, num, avg, resp, reqsLeft, late,
                    returnedIds, nReturned, recorded, observed >>

\* ------------------------------------------------------------------- Next
Next ==
    \/ \E c \in Conns : ConnStateNew(c)
    \/ \E c \in Conns : ConnStateClosed(c)
    \/ \E c \in Conns : ServeRequest(c)
    \/ \E c \in Conns : \E r \in Requests : HashHandlerEnter(c, r)
    \/ \E c \in Conns : HashGetRLock(c)
    \/ \E c \in Conns : HashGetRead(c)
    \/ \E c \in Conns : HashPostAlloc(c)
    \/ \E c \in Conns : UpdateStatsLoad(c)
    \/ \E c \in Conns : UpdateStatsAdd(c)
    \/ \E c \in Conns : UpdateStatsStore(c)
    \/ \E c \in Conns : HashAndEncodeSleep(c)
    \/ \E c \in Conns : HashAndEncodeLock(c)
    \/ \E c \in Conns : HashAndEncodeWrite(c)
    \/ \E c \in Conns : \E r \in Requests : StatsHandlerEnter(c, r)
    \/ \E c \in Conns : StatsLoad(c)
    \/ \E c \in Conns : StatsMarshal(c)
    \/ \E c \in Conns : HandlerReturn(c)
    \/ Signal
    \/ ShutdownExit

Spec == Init /\ [][Next]_vars

\* ------------------------------------------------- fair scheduling of steps
\* a step of the handler running on connection c
HandlerStep(c) ==
    \/ \E r \in Requests : HashHandlerEnter(c, r)
    \/ \E r \in Requests : StatsHandlerEnter(c, r)
    \/ HashGetRLock(c)
    \/ HashGetRead(c)
    \/ HashPostAlloc(c)
    \/ UpdateStatsLoad(c)
    \/ UpdateStatsAdd(c)
    \/ UpdateStatsStore(c)
    \/ HashAndEncodeSleep(c)
    \/ HashAndEncodeLock(c)
    \/ HashAndEncodeWrite(c)
    \/ StatsLoad(c)
    \/ StatsMarshal(c)
    \/ HandlerReturn(c)

\* --------------------------- submissions and stats reads only, no shutdown
SubmitRequests == { r \in Requests : r.handler = "hash" /\ r.method = "POST" /\ r.p # "" }

StatsGetRequests == { r \in Requests : r.handler = "stats" /\ r.method = "GET" }

InitStats == InitShared /\ reqsLeft = MaxStatsReqs

NextStats ==
    \/ \E c \in Conns : ConnStateNew(c)
    \/ \E c \in Conns : ConnStateClosed(c)
    \/ \E c \in Conns : ServeRequest(c)
    \/ \E c \in Conns : \E r \in SubmitRequests : HashHandlerEnter(c, r)
    \/ \E c \in Conns : HashPostAlloc(c)
    \/ \E c \in Conns : UpdateStatsLoad(c)
    \/ \E c \in Conns : UpdateStatsAdd(c)
    \/ \E c \in Conns : UpdateStatsStore(c)
    \/ \E c \in Conns : HashAndEncodeSleep(c)
    \/ \E c \in Conns : HashAndEncodeLock(c)
    \/ \E c \in Conns : HashAndEncodeWrite(c)
    \/ \E c \in Conns : \E r \in StatsGetRequests : StatsHandlerEnter(c, r)
    \/ \E c \in Conns : StatsLoad(c)
    \/ \E c \in Conns : StatsMarshal(c)
    \/ \E c \in Conns : HandlerReturn(c)

StatsSpec == InitStats /\ [][NextStats]_vars

\* ------------------- submissions, retrievals of job 1 and the shutdown path
RetrieveRequests ==
    { r \in Requests : r.handler = "hash" /\ r.method = "GET" /\ r.urlParts = << NoSeg, HashSeg, <<"1">> >> }

InitDrain == InitShared /\ reqsLeft = MaxDrainReqs

NextDrain ==
    \/ \E c \in Conns : ConnStateNew(c)
    \/ \E c \in Conns : ConnStateClosed(c)
    \/ \E c \in Conns : ServeRequest(c)
    \/ \E c \in Conns : \E r \in SubmitRequests \cup RetrieveRequests : HashHandlerEnter(c, r)
    \/ \E c \in Conns : HashGetRLock(c)
    \/ \E c \in Conns : HashGetRead(c)
    \/ \E c \in Conns : HashPostAlloc(c)
    \/ \E c \in Conns : UpdateStatsLoad(c)
    \/ \E c \in Conns : UpdateStatsAdd(c)
    \/ \E c \in Conns : UpdateStatsStore(c)
    \/ \E c \in Conns : HashAndEncodeSleep(c)
    \/ \E c \in Conns : HashAndEncodeLock(c)
    \/ \E c \in Conns : HashAndEncodeWrite(c)
    \/ \E c \in Conns : HandlerReturn(c)
    \/ Signal
    \/ ShutdownExit

\* Goroutines are scheduled fairly: a handler whose next step stays possible
\* takes it.  The signal and the clients are not assumed to act.
DrainSpec == InitDrain /\ [][NextDrain]_vars /\ \A c \in Conns : WF_vars(HandlerStep(c))

\* ------------------------- one request at a time on the hash endpoint
HashRequests == { r \in Requests : r.handler = "hash" }

\* the client sends a request only after the previous response has arrived
ServeRequestSeq(c) ==
    /\ \A d \in Conns : pc[d] = "idle"
    /\ ServeRequest(c)

InitSeq == InitShared /\ reqsLeft = MaxSeqReqs

NextSeq ==
    \/ \E c \in Conns : ConnStateNew(c)
    \/ \E c \in Conns : ConnStateClosed(c)
    \/ \E c \in Conns : ServeRequestSeq(c)
    \/ \E c \in Conns : \E r \in HashRequests : HashHandlerEnter(c, r)
    \/ \E c \in Conns : HashGetRLock(c)
    \/ \E c \in Conns : HashGetRead(c)
    \/ \E c \in Conns : HashPostAlloc(c)
    \/ \E c \in Conns : UpdateStatsLoad(c)
    \/ \E c \in Conns : UpdateStatsAdd(c)
    \/ \E c \in Conns : UpdateStatsStore(c)
    \/ \E c \in Conns : HashAndEncodeSleep(c)
    \/ \E c \in Conns : HashAndEncodeLock(c)
    \/ \E c \in Conns : HashAndEncodeWrite(c)
    \/ \E c \in Conns : HandlerReturn(c)

SeqSpec == InitSeq /\ [][NextSeq]_vars

\* ------------------------- submissions and retrievals of job 1, no shutdown
InitStore == InitShared /\ reqsLeft = MaxStoreReqs

NextStore ==
    \/ \E c \in Conns : ConnStateNew(c)
    \/ \E c \in Conns : ConnStateClosed(c)
    \/ \E c \in Conns : ServeRequest(c)
    \/ \E c \in Conns : \E r \in SubmitRequests \cup RetrieveRequests : HashHandlerEnter(c, r)
    \/ \E c \in Conns : HashGetRLock(c)
    \/ \E c \in Conns : HashGetRead(c)
    \/ \E c \in Conns : HashPostAlloc(c)
    \/ \E c \in Conns : UpdateStatsLoad(c)
    \/ \E c \in Conns : UpdateStatsAdd(c)
    \/ \E c \in Conns : UpdateStatsStore(c)
    \/ \E c \in Conns : HashAndEncodeSleep(c)
    \/ \E c \in Conns : HashAndEncodeLock(c)
    \/ \E c \in Conns : HashAndEncodeWrite(c)
    \/ \E c \in Conns : HandlerReturn(c)

StoreSpec == InitStore /\ [][NextStore]_vars

\* ------------ submissions of two different values, retrievals of jobs 1, 2
digestValues == {"angryMonkey", "password"}

DigestSubmitRequests ==
    { [handler |-> "hash", method |-> "POST", urlParts |-> << NoSeg, HashSeg >>, p |-> v] :
          v \in digestValues }

DigestRetrieveRequests ==
    { [handler |-> "hash", method |-> "GET", urlParts |-> << NoSeg, HashSeg, s >>, p |-> ""] :
          s \in { <<"1">>, <<"2">> } }

InitDigest == InitShared /\ reqsLeft = MaxDigestReqs

NextDigest ==
    \/ \E c \in Conns : ConnStateNew(c)
    \/ \E c \in Conns : ConnStateClosed(c)
    \/ \E c \in Conns : ServeRequest(c)
    \/ \E c \in Conns : \E r \in DigestSubmitRequests \cup DigestRetrieveRequests :
                             HashHandlerEnter(c, r)
    \/ \E c \in Conns : HashGetRLock(c)
    \/ \E c \in Conns : HashGetRead(c)
    \/ \E c \in Conns : HashPostAlloc(c)
    \/ \E c \in Conns : UpdateStatsLoad(c)
    \/ \E c \in Conns : UpdateStatsAdd(c)
    \/ \E c \in Conns : UpdateStatsStore(c)
    \/ \E c \in Conns : HashAndEncodeSleep(c)
    \/ \E c \in Conns : HashAndEncodeLock(c)
    \/ \E c \in Conns : HashAndEncodeWrite(c)
    \/ \E c \in Conns : HandlerReturn(c)

DigestSpec == InitDigest /\ [][NextDigest]_vars

\* ----------- a submission and retrievals of well-formed integer identifiers
\* "1", "999999", "-1" and "4294967297" (2^32 + 1)
lookupSegments ==
    { <<"1">>,
      <<"9", "9", "9", "9", "9", "9">>,
      <<"-", "1">>,
      <<"4", "2", "9", "4", "9", "6", "7", "2", "9", "7">> }

LookupRequests ==
    { [handler |-> "hash", method |-> "GET", urlParts |-> << NoSeg, HashSeg, s >>, p |-> ""] :
          s \in lookupSegments }

InitLookup == InitShared /\ reqsLeft = MaxLookupReqs

NextLookup ==
    \/ \E c \in Conns : ConnStateNew(c)
    \/ \E c \in Conns : ConnStateClosed(c)
    \/ \E c \in Conns : ServeRequest(c)
    \/ \E c \in Conns : \E r \in SubmitRequests \cup LookupRequests : HashHandlerEnter(c, r)
    \/ \E c \in Conns : HashGetRLock(c)
    \/ \E c \in Conns : HashGetRead(c)
    \/ \E c \in Conns : HashPostAlloc(c)
    \/ \E c \in Conns : UpdateStatsLoad(c)
    \/ \E c \in Conns : UpdateStatsAdd(c)
    \/ \E c \in Conns : UpdateStatsStore(c)
    \/ \E c \in Conns : HashAndEncodeSleep(c)
    \/ \E c \in Conns : HashAndEncodeLock(c)
    \/ \E c \in Conns : HashAndEncodeWrite(c)
    \/ \E c \in Conns : HandlerReturn(c)

LookupSpec == InitLookup /\ [][NextLookup]_vars

\* ------------- submissions one at a time, with different measured durations
\* 1 ms, 2 ms and 4.5 ms
meanDurationNanos == {1000000, 2000000, 4500000}

InitMean == InitShared /\ reqsLeft = MaxMeanReqs

NextMean ==
    \/ \E c \in Conns : ConnStateNew(c)
    \/ \E c \in Conns : ConnStateClosed(c)
    \/ \E c \in Conns : ServeRequestSeq(c)
    \/ \E c \in Conns : \E r \in SubmitRequests : HashHandlerEnter(c, r)
    \/ \E c \in Conns : HashPostAlloc(c)
    \/ \E c \in Conns : UpdateStatsLoad(c)
    \/ \E c \in Conns : \E durationNano \in meanDurationNanos : UpdateStatsAddOf(c, durationNano)
    \/ \E c \in Conns : UpdateStatsStore(c)
    \/ \E c \in Conns : HashAndEncodeSleep(c)
    \/ \E c \in Conns : HashAndEncodeLock(c)
    \/ \E c \in Conns : HashAndEncodeWrite(c)
    \/ \E c \in Conns : HandlerReturn(c)

MeanSpec == InitMean /\ [][NextMean]_vars

\* --------------- the shutdown path while clients keep opening connections
\* ConnState callback, http.StateNew, for a connection that the listener
\* accepts after an earlier one has closed: wg.Add(1).  The listener is never
\* closed, so connections are accepted before and after the flag flips.
AcceptAfterClose(c) ==
    /\ Alive
    /\ connState[c] = "closed"
    /\ connState' = [connState EXCEPT ![c] = "new"]
    /\ wg' = wg + 1
    /\ UNCHANGED << stopping, jobCounter, hashes, lock, heap, published, hashStats,
                    sigPc, pc, req, jid, hs, num, avg, resp, reqsLeft, late,
                    returnedIds, nReturned, recorded, observed >>

InitShutdown == InitShared /\ reqsLeft = MaxShutdownReqs

NextShutdown ==
    \/ \E c \in Conns : ConnStateNew(c)
    \/ \E c \in Conns : ConnStateClosed(c)
    \/ \E c \in Conns : AcceptAfterClose(c)
    \/ \E c \in Conns : ServeRequest(c)
    \/ \E c \in Conns : \E r \in SubmitRequests : HashHandlerEnter(c, r)
    \/ \E c \in Conns : HashPostAlloc(c)
    \/ \E c \in Conns : UpdateStatsLoad(c)
    \/ \E c \in Conns : UpdateStatsAdd(c)
    \/ \E c \in Conns : UpdateStatsStore(c)
    \/ \E c \in Conns : HashAndEncodeSleep(c)
    \/ \E c \in Conns : HashAndEncodeLock(c)
    \/ \E c \in Conns : HashAndEncodeWrite(c)
    \/ \E c \in Conns : HandlerReturn(c)
    \/ Signal
    \/ ShutdownExit

\* Handler steps are scheduled fairly, every open connection on which no
\* handler runs is eventually closed, and wg.Wait() returns once the counter
\* has reached zero (the waiter is released by the wg.Done() that reaches
\* zero, so strong fairness).  Clients and the signal are not assumed to act.
ShutdownSpec ==
    /\ InitShutdown
    /\ [][NextShutdown]_vars
    /\ \A c \in Conns : WF_vars(HandlerStep(c))
    /\ \A c \in Conns : WF_vars(ConnStateClosed(c))
    /\ SF_vars(ShutdownExit)

\* ------------------------- every method of the test tables on both endpoints
httpMethods == {"POST", "GET", "PUT", "DELETE", "HEAD", "PATCH"}

MethodRequests ==
         { [handler |-> "hash", method |-> m, urlParts |-> << NoSeg, HashSeg >>, p |-> ""] :
               m \in httpMethods }
    \cup { [handler |-> "stats", method |-> m, urlParts |-> <<>>, p |-> ""] : m \in httpMethods }
    \cup SubmitRequests

InitMethod == InitShared /\ reqsLeft = MaxMethodReqs

NextMethod ==
    \/ \E c \in Conns : ConnStateNew(c)
    \/ \E c \in Conns : ConnStateClosed(c)
    \/ \E c \in Conns : ServeRequest(c)
    \/ \E c \in Conns : \E r \in MethodRequests : HashHandlerEnter(c, r)
    \/ \E c \in Conns : HashPostAlloc(c)
    \/ \E c \in Conns : UpdateStatsLoad(c)
    \/ \E c \in Conns : UpdateStatsAdd(c)
    \/ \E c \in Conns : UpdateStatsStore(c)
    \/ \E c \in Conns : HashAndEncodeSleep(c)
    \/ \E c \in Conns : HashAndEncodeLock(c)
    \/ \E c \in Conns : HashAndEncodeWrite(c)
    \/ \E c \in Conns : \E r \in MethodRequests : StatsHandlerEnter(c, r)
    \/ \E c \in Conns : StatsLoad(c)
    \/ \E c \in Conns : StatsMarshal(c)
    \/ \E c \in Conns : HandlerReturn(c)
    \/ Signal
    \/ ShutdownExit

MethodSpec == InitMethod /\ [][NextMethod]_vars

\* ------------------ retrievals with a missing or a malformed identifier
\* /hash, /hash/, /hash/abc, /hash/12a, /hash/9223372036854775808 (2^63) and
\* the well-formed /hash/1
badIdUrlParts ==
    { << NoSeg, HashSeg >>,
      << NoSeg, HashSeg, NoSeg >>,
      << NoSeg, HashSeg, <<"a", "b", "c">> >>,
      << NoSeg, HashSeg, <<"1", "2", "a">> >>,
      << NoSeg, HashSeg, <<"9", "2", "2", "3", "3", "7", "2", "0", "3", "6",
                           "8", "5", "4", "7", "7", "5", "8", "0", "8">> >>,
      << NoSeg, HashSeg, <<"1">> >> }

BadIdRequests ==
    { [handler |-> "hash", method |-> "GET", urlParts |-> u, p |-> ""] : u \in badIdUrlParts }

InitBadId == InitShared /\ reqsLeft = MaxBadIdReqs

NextBadId ==
    \/ \E c \in Conns : ConnStateNew(c)
    \/ \E c \in Conns : ConnStateClosed(c)
    \/ \E c \in Conns : ServeRequest(c)
    \/ \E c \in Conns : \E r \in SubmitRequests \cup BadIdRequests : HashHandlerEnter(c, r)
    \/ \E c \in Conns : HashGetRLock(c)
    \/ \E c \in Conns : HashGetRead(c)
    \/ \E c \in Conns : HashPostAlloc(c)
    \/ \E c \in Conns : UpdateStatsLoad(c)
    \/ \E c \in Conns : UpdateStatsAdd(c)
    \/ \E c \in Conns : UpdateStatsStore(c)
    \/ \E c \in Conns : HashAndEncodeSleep(c)
    \/ \E c \in Conns : HashAndEncodeLock(c)
    \/ \E c \in Conns : HashAndEncodeWrite(c)
    \/ \E c \in Conns : HandlerReturn(c)
    \/ Signal
    \/ ShutdownExit

BadIdSpec == InitBadId /\ [][NextBadId]_vars

\* =========================================== the synchronous password server
\* PasswordHandler of pwdsrv/password_server.go.  It has no package state:
\* only the connection, pc, req and resp of each connection are used.
passwordMethods == {"POST", "GET", "PUT", "DELETE", "HEAD"}

passwordValues == {"", "angryMonkey", "password"}

PasswordRequests ==
         { [handler |-> "password", method |-> "POST", urlParts |-> <<>>, p |-> v] :
               v \in passwordValues }
    \cup { [handler |-> "password", method |-> m, urlParts |-> <<>>, p |-> ""] :
               m \in passwordMethods \ {"POST"} }

\* encryptAndEncode: base64 of the sha512 sum (the test fixtures)
encryptAndEncode(data) == hashFixture(data)

\* http.ListenAndServe accepts a connection
PasswordConnNew(c) ==
    /\ connState[c] = "unaccepted"
    /\ connState' = [connState EXCEPT ![c] = "new"]
    /\ UNCHANGED << stopping, jobCounter, hashes, lock, heap, published, hashStats, wg,
                    sigPc, pc, req, jid, hs, num, avg, resp, reqsLeft, late,
                    returnedIds, nReturned, recorded, observed >>

\* a connection on which no handler runs is closed
PasswordConnClosed(c) ==
    /\ connState[c] \in {"new", "idle"}
    /\ connState' = [connState EXCEPT ![c] = "closed"]
    /\ UNCHANGED << stopping, jobCounter, hashes, lock, heap, published, hashStats, wg,
                    sigPc, pc, req, jid, hs, num, avg, resp, reqsLeft, late,
                    returnedIds, nReturned, recorded, observed >>

\* PasswordHandler.ServeHTTP up to time.Sleep: the method switch and the
\* test of the form value
PasswordHandlerEnter(c, r) ==
    /\ pc[c] = "enter"
    /\ r.handler = "password"
    /\ req' = [req EXCEPT ![c] = r]
    /\ IF r.method = "POST"
       THEN IF r.p # ""
            THEN /\ pc' = [pc EXCEPT ![c] = "psleep"]
                 /\ resp' = resp
            ELSE /\ resp' = [resp EXCEPT ![c] =
                        [code |-> StatusBadRequest, body |-> "A value must be submitted.",
                         total |-> 0, average |-> Zero]]
                 /\ pc' = [pc EXCEPT ![c] = "ret"]
       ELSE /\ resp' = [resp EXCEPT ![c] =
                   Error("Only POST requests are supported.", StatusMethodNotAllowed)]
            /\ pc' = [pc EXCEPT ![c] = "ret"]
    /\ UNCHANGED << stopping, jobCounter, hashes, lock, heap, published, hashStats,
                    wg, sigPc, connState, jid, hs, num, avg, reqsLeft, late,
                    returnedIds, nReturned, recorded, observed >>

\* PasswordRespond answering with the value of the first sleeping request
\* (the value kept in a field shared by all requests)
PasswordRespondShared(c) ==
    /\ pc[c] = "psleep"
    /\ LET first == CHOOSE d \in Conns :
                        pc[d] = "psleep" /\ \A e \in Conns : pc[e] = "psleep" => d <= e
       IN  resp' = [resp EXCEPT ![c] =
                      [code |-> StatusOK, body |-> encryptAndEncode(req[first].p),
                       total |-> 0, average |-> Zero]]
    /\ pc' = [pc EXCEPT ![c] = "ret"]
    /\ UNCHANGED << stopping, jobCounter, hashes, lock, heap, published, hashStats,
                    wg, sigPc, connState, req, jid, hs, num, avg, reqsLeft, late,
                    returnedIds, nReturned, recorded, observed >>

\* after time.Sleep: w.Write(encryptAndEncode(r.PostFormValue("password")))
PasswordRespond(c) ==
    /\ pc[c] = "psleep"
    /\ resp' = [resp EXCEPT ![c] =
                  [code |-> StatusOK, body |-> encryptAndEncode(req[c].p),
                   total |-> 0, average |-> Zero]]
    /\ pc' = [pc EXCEPT ![c] = "ret"]
    /\ UNCHANGED << stopping, jobCounter, hashes, lock, heap, published, hashStats,
                    wg, sigPc, connState, req, jid, hs, num, avg, reqsLeft, late,
                    returnedIds, nReturned, recorded, observed >>

InitPassword == InitShared /\ reqsLeft = MaxPasswordReqs

NextPassword ==
    \/ \E c \in Conns : PasswordConnNew(c)
    \/ \E c \in Conns : PasswordConnClosed(c)
    \/ \E c \in Conns : ServeRequest(c)
    \/ \E c \in Conns : \E r \in PasswordRequests : PasswordHandlerEnter(c, r)
    \/ \E c \in Conns : PasswordRespond(c)
    \/ \E c \in Conns : HandlerReturn(c)

PasswordSpec == InitPassword /\ [][NextPassword]_vars

\* ================================================================= claims
\* the Submit handler on c has allocated its JobId
HoldsJobId(c) == IsSubmitOK(c)

\* the handler on c read the flag as accepting and has not returned yet
Admitted(c) == pc[c] \notin {"idle", "enter"} /\ resp[c].code # StatusServiceUnavailable

\* an updateStats call is between its load and its store
InUpdateStats(c) == pc[c] \in {"load", "add", "store"}

\* C1: the JobIds given to submissions, concurrent or not, are pairwise
\* distinct: no id is returned twice, and no two handlers hold the same id.
C1_DistinctJobIds ==
    /\ Cardinality(returnedIds) = nReturned
    /\ \A c \in Conns : HoldsJobId(c) => resp[c].body \notin returnedIds
    /\ \A c, d \in Conns : c # d /\ HoldsJobId(c) /\ HoldsJobId(d) => jid[c] # jid[d]

C1_Witness ==
    \E c, d \in Conns : c # d /\ HoldsJobId(c) /\ HoldsJobId(d) /\ pc[c] = "load" /\ pc[d] = "load"

\* C2: once every updateStats call that started has completed, the published
\* total equals the number of completed calls (no update is lost).
C2_NoLostUpdate ==
    (\A c \in Conns : ~InUpdateStats(c)) => heap[hashStats].Total = recorded

\* C3: the Submit handler does not wait for the completion work: while the
\* delay, the digest or the store write of its job is outstanding, the
\* handler is able to return.
C3_HandlerDoesNotWait ==
    \A c \in Conns : pc[c] \in {"sleep", "lock", "write"} => ENABLED HandlerReturn(c)

\* C4: the flag never returns to accepting, and a request whose handler starts
\* after the flip is answered 503 without any work: it allocates no id, and
\* reads or writes neither the store nor the stats.
LateRejected ==
    \A c \in Conns : late[c] =>
        /\ pc[c] \in {"enter", "ret"}
        /\ pc[c] = "ret" => resp[c].code = StatusServiceUnavailable
        /\ jid[c] = 0
        /\ hs[c] = 0

LateStepTouchesNothing ==
    \A c \in Conns : late[c] /\ pc'[c] # pc[c] =>
        UNCHANGED << jobCounter, hashes, lock, heap, hashStats >>

C4_DrainRejects ==
    /\ []LateRejected
    /\ [][(stopping = 1 => stopping' = 1) /\ LateStepTouchesNothing]_vars

C4_Witness ==
    \E c, d \in Conns :
        /\ late[c] /\ pc[c] = "ret" /\ req[c].handler = "hash"
        /\ late[d] /\ pc[d] = "ret" /\ req[d].handler = "stats"

\* C5: while the handler of a request admitted before the flip is running,
\* the process has not exited and the connection is counted in the WaitGroup.
C5_AdmittedNotAborted ==
    \A c \in Conns : Admitted(c) => sigPc # "exited" /\ wg >= 1

C5_Witness ==
    \E c \in Conns : Admitted(c) /\ ~late[c] /\ sigPc = "draining" /\ pc[c] = "sleep"

\* C6: every allocated JobId eventually has a result in the store, also when
\* the termination signal arrives while the job is pending.
C6_EventuallyStored ==
    (\E j \in 1..jobCounter : MapGet(hashes, j) = NoHash)
        ~> (\A j \in 1..jobCounter : MapGet(hashes, j) # NoHash)

C6_Witness ==
    \E c \in Conns : sigPc = "draining" /\ pc[c] = "ret" /\ HoldsJobId(c)
                     /\ MapGet(hashes, jid[c]) # NoHash

\* C8: at every moment the published total equals the number of results
\* written to the store.
C8_TotalEqualsCompleted ==
    heap[hashStats].Total = Cardinality(DOMAIN hashes)

\* C9: the total read by a Stats request is never smaller than the total read
\* by an earlier one.
C9_TotalMonotone == [][observed' >= observed]_vars

\* C10: the (total, average) pair a Stats request reads is a pair that was
\* published together.
C10_SnapshotConsistent ==
    \A c \in Conns :
        (pc[c] = "ret" /\ req[c].handler = "stats" /\ resp[c].code = StatusOK) =>
            \E i \in 1..Len(published) :
                /\ published[i].Total = resp[c].total
                /\ published[i].Average = resp[c].average

\* C11: with one request at a time from a fresh process, the k-th successful
\* Submit is given the id k: the first id is 1 and each later id is the
\* previous one plus one, whatever other requests come in between.
C11_SequentialIds ==
    \A c \in Conns : HoldsJobId(c) =>
        /\ jid[c] = nReturned + 1
        /\ resp[c].body = Itoa(nReturned + 1)

C11_Witness ==
    \E c \in Conns : HoldsJobId(c) /\ nReturned = 2 /\ resp[c].body = "3" /\ pc[c] = "ret"

\* a Submit whose form value is empty or absent
EmptySubmit(q) == q.handler = "hash" /\ q.method = "POST" /\ q.p = ""

SharedUnchanged == UNCHANGED << jobCounter, hashes, lock, heap, published, hashStats, recorded >>

\* C12: a Submit with an empty value is answered 400 'A value must be
\* submitted.' (503 when draining), and no step of its handler advances the
\* counter, starts completion work, touches the store or updates the stats.
EmptySubmitRejected ==
    \A c \in Conns : EmptySubmit(req[c]) =>
        /\ pc[c] = "ret"
        /\ jid[c] = 0
        /\ hs[c] = 0
        /\ \/ resp[c] = Error("A value must be submitted.", StatusBadRequest)
           \/ resp[c].code = StatusServiceUnavailable

EmptySubmitStepTouchesNothing ==
    \A c \in Conns :
        (EmptySubmit(req[c]) \/ EmptySubmit(req'[c])) /\ pc'[c] # pc[c] => SharedUnchanged

C12_EmptySubmitConsumesNothing ==
    /\ []EmptySubmitRejected
    /\ [][EmptySubmitStepTouchesNothing]_vars

C12_Witness ==
    \E c \in Conns : /\ EmptySubmit(req[c])
                     /\ resp[c].code = StatusBadRequest
                     /\ jobCounter = 1
                     /\ stopping = 0

\* the Retrieve handler on c has found a result and written the 200 response
Retrieved(c) ==
    /\ req[c].handler = "hash"
    /\ req[c].method = "GET"
    /\ pc[c] = "ret"
    /\ resp[c].code = StatusOK

\* C13: the store is write-once.  Every write of a completion adds a key
\* that was not present, no step changes or removes an entry, and a result
\* that a Retrieve has returned for id k stays the entry of k, so that every
\* later Retrieve of k reads the identical digest.
WriterKeyFresh ==
    \A c \in Conns : pc[c] \in {"sleep", "lock", "write"} => jid[c] \notin DOMAIN hashes

RetrievedStable ==
    /\ \A c \in Conns : Retrieved(c) => resp[c].body = MapGet(hashes, jid[c])
    /\ \A c, d \in Conns :
           Retrieved(c) /\ Retrieved(d) /\ jid[c] = jid[d] => resp[c].body = resp[d].body

WriteAddsKey ==
    \A c \in Conns : pc[c] = "write" /\ pc'[c] # "write" =>
        DOMAIN hashes' = DOMAIN hashes \cup {jid[c]}

EntriesKept ==
    \A k \in DOMAIN hashes : k \in DOMAIN hashes' /\ hashes'[k] = hashes[k]

C13_WriteOnce ==
    /\ [](WriterKeyFresh /\ RetrievedStable)
    /\ [][EntriesKept /\ WriteAddsKey]_vars

C13_Witness ==
    \E c, d \in Conns :
        /\ c # d
        /\ Retrieved(c) /\ Retrieved(d)
        /\ jid[c] = jid[d]
        /\ DOMAIN hashes = {1}

\* C14: the entry stored under id k is the digest of the value submitted in
\* the request that was given id k, and a Retrieve of k returns that digest,
\* whatever the order in which the jobs complete.
C14_ResultMatchesInput ==
    \A c \in Conns : HoldsJobId(c) =>
        /\ MapGet(hashes, jid[c]) \in {NoHash, hashFixture(req[c].p)}
        /\ pc[c] = "ret" => MapGet(hashes, jid[c]) = hashFixture(req[c].p)
        /\ \A d \in Conns :
               Retrieved(d) /\ jid[d] = jid[c] => resp[d].body = hashFixture(req[c].p)

\* job 2 completed before job 1, the two values differ, both are stored
C14_Witness ==
    \E c, d \in Conns :
        /\ HoldsJobId(c) /\ jid[c] = 1 /\ pc[c] = "ret"
        /\ HoldsJobId(d) /\ jid[d] = 2 /\ pc[d] = "ret"
        /\ req[c].p # req[d].p
        /\ DOMAIN hashes = {1, 2}

\* the Go int with the value of the job id k (0 <= k < 2^31)
IntOfJobId(k) ==
    [err |-> FALSE, neg |-> FALSE, mag |-> << k % LimbBase, k \div LimbBase, 0, 0 >>]

\* the Retrieve handler on c has parsed its identifier and written a response
RetrieveAnswered(c) ==
    /\ req[c].handler = "hash"
    /\ req[c].method = "GET"
    /\ pc[c] = "ret"
    /\ Len(req[c].urlParts) >= 3
    /\ ~Atoi(req[c].urlParts[3]).err

\* C15: a Retrieve of a well-formed integer is answered 200 only when that
\* integer is the id of a completed job; an integer that is no allocated id
\* is answered 404 (503 when draining).
C15_UnknownIdNotFound ==
    \A c \in Conns : RetrieveAnswered(c) =>
        LET n == Atoi(req[c].urlParts[3])
        IN  /\ resp[c].code = StatusOK =>
                   \E k \in DOMAIN hashes : n = IntOfJobId(k)
            /\ (\A k \in 1..jobCounter : n # IntOfJobId(k)) =>
                   resp[c].code \in {StatusNotFound, StatusServiceUnavailable}

\* avg_i = avg_{i-1} + (L_i - avg_{i-1}) / i in exact fractions, L_i in
\* milliseconds: with avg_{i-1} = a/b and L_i = p/q,
\* a/b + (p/q - a/b) / i = (a*q*i + p*b - a*q) / (b*q*i)
IncrementalMean(prev, i, durationNano) ==
    LET p == durationNano
        q == 1000000
    IN  Frac(prev[1] * q * i + p * prev[2] - prev[1] * q, prev[2] * q * i)

\* C16: with updateStats calls applied one at a time from (0, 0), the i-th
\* published snapshot has total i and the average given by the incremental
\* mean of the i-th latency and the previous average.
C16_SequentialMean ==
    \A i \in 1..(Len(published) - 1) :
        /\ published[i + 1].Total = i
        /\ \E durationNano \in meanDurationNanos :
               published[i + 1].Average = IncrementalMean(published[i].Average, i, durationNano)

\* three calls with three different latencies: 1 ms, then 2 ms, then 4.5 ms,
\* the averages being 1, 3/2 and 5/2
C16_Witness ==
    /\ Len(published) = 4
    /\ published[2].Average = << 1, 1 >>
    /\ published[3].Average = << 3, 2 >>
    /\ published[4] = [Total |-> 3, Average |-> << 5, 2 >>]

\* C17: once the termination signal has been received the process eventually
\* terminates, also when connections keep being accepted after the flip.
C17_EventuallyExits == (sigPc = "draining") ~> (sigPc = "exited")

\* C18: while the flag is accepting, the method decides the status.  The hash
\* endpoint answers 405 to every method but GET and POST (and never 405 to
\* those), the stats endpoint answers 405 to every method but GET and 200 to
\* GET; the handler that answers 405 holds no id and no stats object, and
\* none of its steps changes the counter, the store or the stats.
MethodDecides ==
    \A c \in Conns : pc[c] \notin {"idle", "enter"} =>
        LET q == req[c]
        IN  /\ q.handler = "hash" /\ q.method \notin {"GET", "POST"} =>
                   /\ pc[c] = "ret"
                   /\ resp[c] = Error("Only POST and GET requests are supported.",
                                      StatusMethodNotAllowed)
                   /\ jid[c] = 0
                   /\ hs[c] = 0
            /\ q.handler = "hash" /\ q.method \in {"GET", "POST"} =>
                   resp[c].code # StatusMethodNotAllowed
            /\ q.handler = "stats" /\ q.method # "GET" =>
                   /\ pc[c] = "ret"
                   /\ resp[c] = Error("Only GET requests are supported.", StatusMethodNotAllowed)
                   /\ hs[c] = 0
            /\ q.handler = "stats" /\ q.method = "GET" /\ pc[c] = "ret" =>
                   resp[c].code = StatusOK

NotAllowedStepTouchesNothing ==
    \A c \in Conns :
        /\ pc'[c] # pc[c]
        /\ resp[c].code = StatusMethodNotAllowed \/ resp'[c].code = StatusMethodNotAllowed
        => SharedUnchanged

C18_MethodDecides ==
    /\ [](stopping = 0 => MethodDecides)
    /\ [][NotAllowedStepTouchesNothing]_vars

C18_Witness ==
    \E c, d \in Conns :
        /\ stopping = 0
        /\ pc[c] = "ret" /\ req[c].handler = "hash" /\ req[c].method = "PATCH"
        /\ resp[c].code = StatusMethodNotAllowed
        /\ pc[d] = "ret" /\ req[d].handler = "stats" /\ req[d].method = "DELETE"
        /\ resp[d].code = StatusMethodNotAllowed

\* a Retrieve whose path has no identifier
NoIdGet(q) ==
    /\ q.handler = "hash"
    /\ q.method = "GET"
    /\ Len(q.urlParts) < 3 \/ q.urlParts[3] = NoSeg

\* a Retrieve whose identifier strconv.Atoi rejects
UnparseableGet(q) ==
    /\ q.handler = "hash"
    /\ q.method = "GET"
    /\ Len(q.urlParts) >= 3
    /\ q.urlParts[3] # NoSeg
    /\ Atoi(q.urlParts[3]).err

\* C19: a Retrieve without an identifier, or with one that is not an
\* integer, is answered 400 (503 when draining); its handler never reaches
\* the read lock or the map, and none of its steps changes the lock, the
\* counter, the store or the stats.
BadIdRejected ==
    \A c \in Conns :
        /\ NoIdGet(req[c]) =>
               /\ pc[c] = "ret"
               /\ jid[c] = 0
               /\ \/ resp[c] = Error("No job id specified.", StatusBadRequest)
                  \/ resp[c].code = StatusServiceUnavailable
        /\ UnparseableGet(req[c]) =>
               /\ pc[c] = "ret"
               /\ jid[c] = 0
               /\ \/ resp[c] = Error("Unable to process the supplied job id.", StatusBadRequest)
                  \/ resp[c].code = StatusServiceUnavailable

BadIdGet(q) == NoIdGet(q) \/ UnparseableGet(q)

BadIdStepTouchesNothing ==
    \A c \in Conns :
        (BadIdGet(req[c]) \/ BadIdGet(req'[c])) /\ pc'[c] # pc[c] => SharedUnchanged

C19_BadIdRejected ==
    /\ []BadIdRejected
    /\ [][BadIdStepTouchesNothing]_vars

\* /hash/9223372036854775808 answered 400 while a completion holds the write
\* lock and job 1 is allocated
C19_Witness ==
    \E c, d \in Conns :
        /\ UnparseableGet(req[c])
        /\ Len(req[c].urlParts[3]) = 19
        /\ resp[c].code = StatusBadRequest
        /\ pc[d] = "write"
        /\ lock.w

\* handlers between lock.RLock() and lock.RUnlock()
Readers == { c \in Conns : pc[c] = "read" }

\* completions between lock.Lock() and lock.Unlock()
Writers == { c \in Conns : pc[c] = "write" }

\* C20: the store is never read while it is written and never written by two
\* completions at once; the lock records exactly the readers and the writer
\* inside; a Retrieve answers 404 or a complete digest.
C20_StoreExclusion ==
    /\ Readers = {} \/ Writers = {}
    /\ Cardinality(Writers) <= 1
    /\ lock.w = (Writers # {})
    /\ lock.r = Cardinality(Readers)
    /\ \A c \in Conns : Retrieved(c) => resp[c].body = hashFixture("angryMonkey")

\* a completion waits for the lock while a Retrieve reads the map
C20_Witness ==
    \E c, d \in Conns : pc[c] = "read" /\ pc[d] = "lock" /\ lock.r = 1 /\ hashes # << >>

\* a request other than a Submit with a value: a Retrieve, a Stats request,
\* an empty Submit or a request with an unsupported method
ReadOrInvalid(q) ==
    /\ q # NoRequest
    /\ ~(q.handler = "hash" /\ q.method = "POST" /\ q.p # "")

RejectionCodes ==
    {StatusBadRequest, StatusNotFound, StatusMethodNotAllowed, StatusServiceUnavailable}

CoreUnchanged == UNCHANGED << jobCounter, hashes, heap, published, hashStats, stopping >>

\* C21: no step of a handler serving a Retrieve, a Stats request or a request
\* answered 400, 404, 405 or 503 changes the counter, the store, the stats
\* objects or the flag; every step that changes the counter, the store or
\* the stats belongs to a Submit answered 200.
ReadStepTouchesNothing ==
    \A c \in Conns :
        /\ pc'[c] # pc[c]
        /\ \/ ReadOrInvalid(req[c])
           \/ ReadOrInvalid(req'[c])
           \/ resp[c].code \in RejectionCodes
           \/ resp'[c].code \in RejectionCodes
        => CoreUnchanged

OnlySubmitChanges ==
    ~UNCHANGED << jobCounter, hashes, heap, published, hashStats >> =>
        \E c \in Conns :
            /\ pc'[c] # pc[c]
            /\ req[c].handler = "hash"
            /\ req[c].method = "POST"
            /\ req[c].p # ""
            /\ resp'[c].code = StatusOK

C21_ReadsChangeNothing == [][ReadStepTouchesNothing /\ OnlySubmitChanges]_vars

\* a Retrieve answered 200 while job 1 is stored and counted in the stats
C21_Witness ==
    \E c \in Conns :
        /\ Retrieved(c)
        /\ jobCounter = 1
        /\ DOMAIN hashes = {1}
        /\ heap[hashStats].Total = 1

\* the response the password server owes to request q, as a function of q
ExpectedPasswordResponse(q) ==
    IF q.method # "POST"
    THEN [code |-> StatusMethodNotAllowed, body |-> "Only POST requests are supported.",
          total |-> 0, average |-> Zero]
    ELSE IF q.p = ""
    THEN [code |-> StatusBadRequest, body |-> "A value must be submitted.",
          total |-> 0, average |-> Zero]
    ELSE [code |-> StatusOK, body |-> hashFixture(q.p), total |-> 0, average |-> Zero]

\* C22: in the password server every response is the one its own request
\* determines, whatever the other connections are doing: the digest of the
\* request's own value (written only after the delay), 400 for an empty
\* value, 405 for another method.
C22_OwnRequestDecides ==
    \A c \in Conns : req[c].handler = "password" =>
        /\ pc[c] \in {"psleep", "ret"}
        /\ pc[c] = "ret" => resp[c] = ExpectedPasswordResponse(req[c])
        /\ pc[c] = "psleep" =>
               /\ req[c].method = "POST"
               /\ req[c].p # ""
               /\ resp[c] = NoResp

\* two concurrent requests with different values, each with its own digest
C22_Witness ==
    \E c, d \in Conns :
        /\ pc[c] = "ret" /\ req[c].p = "angryMonkey" /\ resp[c].body = hashFixture("angryMonkey")
        /\ pc[d] = "ret" /\ req[d].p = "password" /\ resp[d].body = hashFixture("password")
        /\ req[c].handler = "password"
        /\ req[d].handler = "password"

\* the connections that have been accepted and have not reached a terminal
\* state
OpenConns == { c \in Conns : connState[c] \in {"new", "active", "idle"} }

\* C23: the WaitGroup counter equals the number of open connections and is
\* never negative, before and after the signal; a connection is accepted
\* once and, once closed, stays closed, so it is added once and subtracted
\* at most once.
WgCountsOpenConns ==
    /\ wg = Cardinality(OpenConns)
    /\ wg >= 0

ConnLifecycleOneWay ==
    \A c \in Conns :
        /\ connState[c] = "closed" => connState'[c] = "closed"
        /\ connState'[c] = "unaccepted" => connState[c] = "unaccepted"
        /\ connState'[c] = "new" => connState[c] \in {"unaccepted", "new"}

C23_WgCountsOpenConns ==
    /\ []WgCountsOpenConns
    /\ [][ConnLifecycleOneWay]_vars

\* the shutdown path waits: one connection has closed, one is still served
C23_Witness ==
    /\ sigPc = "draining"
    /\ wg = 1
    /\ \E c, d \in Conns : connState[c] = "closed" /\ connState[d] = "active"

\* C24: the total of every snapshot as it was published, the current total
\* of every snapshot object (a reader loads one of them, and its total is
\* incremented in place), and the num a handler is about to publish are at
\* most the number of JobIds allocated so far.
C24_TotalAtMostAllocated ==
    /\ \A i \in 1..Len(published) : published[i].Total <= jobCounter
    /\ \A i \in 1..Len(heap) : heap[i].Total <= jobCounter
    /\ \A c \in Conns : num[c] <= jobCounter

\* two concurrent updateStats calls have incremented the initial snapshot
\* object in place and the later num has been published
C24_Witness ==
    /\ jobCounter = 2
    /\ heap[1].Total = 2
    /\ heap[hashStats].Total = 2
    /\ \E c \in Conns : pc[c] = "store" /\ num[c] = 1

====
